---- MODULE Spec2Model ----
(***************************************************************************)
(* A state-machine model of model.py: train / predict / convert and the    *)
(* command-line sequence that chains them.  The filesystem (model          *)
(* artifacts and figures) is the only state shared between calls.  The     *)
(* external libraries (yfinance, Prophet, joblib, matplotlib) are modelled *)
(* by what the program observes of them: a download returns a frame or     *)
(* raises, a fit returns a model determined by its training frame or       *)
(* raises, a dump or savefig writes a file or raises.                      *)
(***************************************************************************)
EXTENDS Integers, Sequences, FiniteSets, TLC

VARIABLES
    TODAY,            \* module-level datetime.date.today() of the running process
    files,            \* the filesystem: location -> content, for the files that exist
    call,             \* the most recent call of train / predict / convert
    ret,              \* what that call returned (a Python value)
    fitted,           \* history: ticker -> the model its last train that wrote fitted
    pc,               \* position in the __main__ block
    args,             \* parsed command-line arguments
    prediction_list,  \* __main__'s local variable
    output,           \* __main__'s local variable
    stdout            \* what the invocation has printed so far

vars == <<TODAY, files, call, ret, fitted, pc, args, prediction_list, output, stdout>>

mainVars == <<pc, args, prediction_list, output, stdout>>

-----------------------------------------------------------------------------
(* Bounds of the model. *)

MaxDays == 2        \* horizons up to MaxDays
MaxPrice == 2       \* price levels 1..MaxPrice of the downloaded histories
MaxLen == 3         \* longest record list handed to convert on its own

\* A text that is used as a file name is kept as a sequence of chunks in
\* which every "/" is a chunk of its own: "a/b" is <<"a", "/", "b">>.
MSFT == <<"MSFT">>

UpModelsMSFT == <<"..", "/", "models", "/", "MSFT">>

\* A symbol of 249 characters: with ".joblib" appended the file name has 256.
LongSymbol == <<"AAAAAAAAAAAAAAAAAAAAAAAAAAAAAAAAAAAAAAAAAAAAAAAAAAAAAAAAAAAAAAAAAAAAAAAAAAAAAAAAAAAAAAAAAAAAAAAAAAAAAAAAAAAAAAAAAAAAAAAAAAAAAAAAAAAAAAAAAAAAAAAAAAAAAAAAAAAAAAAAAAAAAAAAAAAAAAAAAAAAAAAAAAAAAAAAAAAAAAAAAAAAAAAAAAAAAAAAAAAAAAAAAAAAAAAAAAAAAAAAAAAAAAAAA">>

\* --ticker is any str: a plain symbol, one that carries a path prefix and one
\* that is too long for a file name.
Tickers == {MSFT, UpModelsMSFT, LongSymbol}

\* The horizons a library caller passes to predict.
Horizons == 0..MaxDays

\* --days is any int: every horizon up to the longest and one negative value.
DaysChoices == (-1)..MaxDays

-----------------------------------------------------------------------------
(* Python values. *)

PyNone == [type |-> "NoneType"]

PyFalse == [type |-> "bool", val |-> FALSE]

PyList(items) == [type |-> "list", items |-> items]

\* A dict keeps its keys in insertion order: a sequence of entries with
\* pairwise distinct keys.
PyDict(entries) == [type |-> "dict", entries |-> entries]

NoException == "none"

-----------------------------------------------------------------------------
(* datetime.date: proleptic Gregorian calendar, as CPython computes it. *)

Date(y, m, d) == [year |-> y, month |-> m, day |-> d]

IsLeap(y) == (y % 4 = 0) /\ ((y % 100 # 0) \/ (y % 400 = 0))

DaysInMonth(y, m) ==
    IF m = 2 THEN (IF IsLeap(y) THEN 29 ELSE 28)
    ELSE IF m \in {4, 6, 9, 11} THEN 30 ELSE 31

\* Days of year y before the first of month m.
DaysBeforeMonth(y, m) ==
    <<0, 31, 59, 90, 120, 151, 181, 212, 243, 273, 304, 334>>[m]
        + (IF m > 2 /\ IsLeap(y) THEN 1 ELSE 0)

DaysBeforeYear(y) ==
    (y - 1) * 365 + ((y - 1) \div 4) - ((y - 1) \div 100) + ((y - 1) \div 400)

\* date.toordinal(): 0001-01-01 is day 1.
ToOrdinal(dt) ==
    DaysBeforeYear(dt.year) + DaysBeforeMonth(dt.year, dt.month) + dt.day

\* date.fromordinal(n), following datetime._ord2ymd.
FromOrdinal(ordinal) ==
    LET n0   == ordinal - 1
        n400 == n0 \div 146097
        r400 == n0 % 146097
        n100 == r400 \div 36524
        r100 == r400 % 36524
        n4   == r100 \div 1461
        r4   == r100 % 1461
        n1   == r4 \div 365
        n    == r4 % 365
        y    == n400 * 400 + 1 + n100 * 100 + n4 * 4 + n1
    IN  IF n1 = 4 \/ n100 = 4
        THEN Date(y - 1, 12, 31)
        ELSE LET leap  == (n1 = 3) /\ ((n4 # 24) \/ (n100 = 3))
                 m0    == (n + 50) \div 32
                 adj(m) == IF m > 2 /\ leap THEN 1 ELSE 0
                 p0    == DaysBeforeMonth(2001, m0) + adj(m0)
                 m     == IF p0 > n THEN m0 - 1 ELSE m0
                 p     == IF p0 > n
                          THEN p0 - (DaysInMonth(2001, m) + (IF m = 2 /\ leap THEN 1 ELSE 0))
                          ELSE p0
             IN  Date(y, m, n - p + 1)

\* date + datetime.timedelta(days=k)
AddDays(dt, k) == FromOrdinal(ToOrdinal(dt) + k)

-----------------------------------------------------------------------------
(* strftime("%m/%d/%Y") and the parse of that text by pandas. *)

Digit(n) == ToString(n)

DigitValue(c) == CHOOSE n \in 0..9 : ToString(n) = c

\* The decimal digits of n >= 0, without padding.
RECURSIVE Digits(_)
Digits(n) == IF n < 10 THEN <<Digit(n)>> ELSE Append(Digits(n \div 10), Digit(n % 10))

\* The number written by a sequence of digits.
RECURSIVE Number(_)
Number(chars) ==
    IF chars = <<>> THEN 0
    ELSE Number(SubSeq(chars, 1, Len(chars) - 1)) * 10 + DigitValue(chars[Len(chars)])

\* The characters of dt.strftime("%m/%d/%Y"): %m and %d are two digits, %Y
\* is the year as it is, not padded to four digits.
StrftimeChars(dt) ==
    << Digit(dt.month \div 10), Digit(dt.month % 10), "/",
       Digit(dt.day \div 10), Digit(dt.day % 10), "/" >> \o Digits(dt.year)

RECURSIVE Join(_)
Join(chars) == IF chars = <<>> THEN "" ELSE Head(chars) \o Join(Tail(chars))

\* dt.strftime("%m/%d/%Y") as a string.
Strftime(dt) == Join(StrftimeChars(dt))

\* pandas reads "MM/DD/YYYY" month first.
ParseMDY(chars) ==
    Date(Number(SubSeq(chars, 7, Len(chars))),
         DigitValue(chars[1]) * 10 + DigitValue(chars[2]),
         DigitValue(chars[4]) * 10 + DigitValue(chars[5]))

\* The fixed start date "2020-01-01" of the history and of the forecast grid.
START_DATE == Date(2020, 1, 1)

\* pd.date_range(start, end): the daily grid, both ends included.
date_range(start, end) ==
    LET n == ToOrdinal(end) - ToOrdinal(start) + 1
    IN  [i \in 1..(IF n > 0 THEN n ELSE 0) |-> AddDays(start, i - 1)]

-----------------------------------------------------------------------------
(* Paths and the filesystem. *)

\* A path as pathlib holds it: a root ("" for a relative path) and the
\* components below it.
Path(root, parts) == [root |-> root, parts |-> parts]

\* The components of a name as pathlib parses it: the texts between the
\* slashes, with empty components and "." components dropped.  A ".."
\* component is kept.
RECURSIVE Components(_, _, _)
Components(chunks, cur, acc) ==
    LET kept == IF cur \in {"", "."} THEN acc ELSE Append(acc, cur)
    IN  IF chunks = <<>> THEN kept
        ELSE IF Head(chunks) = "/" THEN Components(Tail(chunks), "", kept)
        ELSE Components(Tail(chunks), cur \o Head(chunks), acc)

\* The root of a name: "" for a relative name, "/" for an absolute one
\* ("//" when it starts with exactly two slashes).
Root(chunks) ==
    IF chunks = <<>> \/ chunks[1] # "/" THEN ""
    ELSE IF Len(chunks) >= 2 /\ chunks[2] = "/" /\ (Len(chunks) = 2 \/ chunks[3] # "/")
    THEN "//"
    ELSE "/"

RECURSIVE JoinComponents(_)
JoinComponents(parts) ==
    IF parts = <<>> THEN ""
    ELSE IF Len(parts) = 1 THEN parts[1]
    ELSE parts[1] \o "/" \o JoinComponents(Tail(parts))

\* str(path)
PathStr(path) ==
    IF path.root = "" /\ path.parts = <<>> THEN "."
    ELSE path.root \o JoinComponents(path.parts)

\* dir.joinpath(name): an absolute name replaces dir, a relative one is
\* appended to it component by component.
joinpath(dir, name) ==
    IF Root(name) # "" THEN Path(Root(name), Components(name, "", <<>>))
    ELSE Path(dir.root, dir.parts \o Components(name, "", <<>>))

\* Path(__file__).resolve(strict=True).parent: the directory that holds
\* model.py, absolute and free of links.
BASE_DIR == Path("/", <<"stock-predictor", "src">>)

MODEL_DIR == joinpath(BASE_DIR, <<"models">>)

FIG_DIR == joinpath(BASE_DIR, <<"figures">>)

\* Path(MODEL_DIR).joinpath(f"{ticker}.joblib")
model_file(ticker) == joinpath(MODEL_DIR, ticker \o <<".joblib">>)

plot_file(ticker) == joinpath(FIG_DIR, ticker \o <<"_plot.png">>)

components_file(ticker) == joinpath(FIG_DIR, ticker \o <<"_plot_components.png">>)

\* A location is a place on disk: the names from the root directory down to
\* it.  The directories of the filesystem are the root, BASE_DIR and the
\* directories above it, models/ and figures/; the program creates none and
\* removes none, and there are no links.
Directories ==
    UNION {{SubSeq(d.parts, 1, n) : n \in 0..Len(d.parts)} : d \in {MODEL_DIR, FIG_DIR}}

\* The longest file name and the longest path the operating system takes.
NAME_MAX == 255

PATH_MAX == 4096

\* The walk the operating system makes from directory `at` along `parts`:
\* ".." steps to the parent (the root is its own parent), a name steps into
\* that entry, and every entry that is stepped through has to be a
\* directory.  err is "ENOENT" when an entry that is stepped through is no
\* directory (ENOTDIR when it is a file: the program treats the two alike)
\* and "ENAMETOOLONG" when a name is longer than NAME_MAX.
RECURSIVE Walk(_, _)
Walk(parts, at) ==
    IF parts = <<>> THEN [err |-> "none", at |-> at]
    ELSE IF at \notin Directories THEN [err |-> "ENOENT", at |-> at]
    ELSE IF Head(parts) = ".."
    THEN Walk(Tail(parts), IF at = <<>> THEN at ELSE SubSeq(at, 1, Len(at) - 1))
    ELSE IF Len(Head(parts)) > NAME_MAX THEN [err |-> "ENAMETOOLONG", at |-> at]
    ELSE Walk(Tail(parts), Append(at, Head(parts)))

\* The location a path names.  A path of PATH_MAX characters or more is
\* refused; an absolute path is walked from the root, a relative one from
\* the working directory, taken to be BASE_DIR.
Resolve(path) ==
    IF Len(PathStr(path)) >= PATH_MAX THEN [err |-> "ENAMETOOLONG", at |-> <<>>]
    ELSE Walk(path.parts, IF path.root = "" THEN BASE_DIR.parts ELSE <<>>)

Location(path) == Resolve(path).at

\* There is a file or a directory at the place the path names.
on_disk(fs, path) ==
    LET r == Resolve(path)
    IN  r.err = "none" /\ (r.at \in DOMAIN fs \/ r.at \in Directories)

\* path.exists(): stat the path; a path that is not there (ENOENT, ENOTDIR)
\* gives False, any other error is raised.  denied says that the operating
\* system refuses the search of a directory on the way (EACCES).  The length
\* of the whole path is tested first, then the directories are searched, and
\* a name is looked at only in a directory that may be searched.
exists(fs, path, denied) ==
    IF Len(PathStr(path)) >= PATH_MAX THEN [exc |-> "OSError", val |-> FALSE]
    ELSE IF denied THEN [exc |-> "PermissionError", val |-> FALSE]
    ELSE IF Resolve(path).err = "ENAMETOOLONG" THEN [exc |-> "OSError", val |-> FALSE]
    ELSE [exc |-> NoException, val |-> on_disk(fs, path)]

\* open(path, "wb") can succeed: the walk arrives, and not at a directory.
\* It raises otherwise (ENOENT, ENAMETOOLONG, EISDIR).
writable(path) ==
    LET r == Resolve(path)
    IN  r.err = "none" /\ r.at \notin Directories

\* The content of the file a path names.
read(fs, path) == fs[Location(path)]

\* Writing a file creates it or replaces its content, at the location the
\* path names.
write(fs, path, content) ==
    LET at == Location(path)
    IN  [p \in (DOMAIN fs) \cup {at} |-> IF p = at THEN content ELSE fs[p]]

-----------------------------------------------------------------------------
(* yfinance: what a download can give back. *)

DownloadRaises == [raises |-> TRUE]

Frame(columns, rows) == [raises |-> FALSE, columns |-> columns, rows |-> rows]

PriceColumns == {"Date", "Close", "Adj Close"}

PriceRow(dt, close, adj) == ("Date" :> dt) @@ ("Close" :> close) @@ ("Adj Close" :> adj)

\* Two trading days of history at price level p.
PriceFrame(p) ==
    Frame(PriceColumns,
          << PriceRow(AddDays(START_DATE, 1), p + 1, p),
             PriceRow(AddDays(START_DATE, 2), p + 2, p + 1) >>)

\* An unknown symbol: a frame with no rows.
EmptyFrame == Frame(PriceColumns, <<>>)

\* A frame without the adjusted-close column.
UnadjustedFrame ==
    Frame({"Date", "Close"},
          << ("Date" :> AddDays(START_DATE, 1)) @@ ("Close" :> 1),
             ("Date" :> AddDays(START_DATE, 2)) @@ ("Close" :> 2) >>)

Downloads ==
    {DownloadRaises, EmptyFrame, UnadjustedFrame} \cup {PriceFrame(p) : p \in 1..MaxPrice}

-----------------------------------------------------------------------------
(* Prophet: a fitted model is determined by the frame it was fitted on. *)

FitRaises(df) == Len(df) < 2

Fit(df) == [history |-> df]

NoModel == [history |-> <<>>]

\* What is left of an artifact when the dump breaks off after the file was
\* opened: a file that joblib.load cannot read.
Truncated == [truncated |-> TRUE]

\* The trend at date ds: the line through the first and last training points.
Trend(model, ds) ==
    LET h     == model.history
        first == h[1]
        last  == h[Len(h)]
        span  == ToOrdinal(last.ds) - ToOrdinal(first.ds)
        slope == (last.y - first.y) \div span
    IN  first.y + slope * (ToOrdinal(ds) - ToOrdinal(first.ds))

\* model.predict(df): one ForecastRecord per row of the grid, in grid order.
Forecast(model, dates) ==
    [i \in 1..Len(dates) |->
        LET trend == Trend(model, dates[i])
        IN  [ds    |-> dates[i],
             trend |-> trend,
             yhat  |-> trend + (ToOrdinal(dates[i]) % 7)]]

\* A saved figure, known by the kind of plot it is; its pixels are not modelled.
Figure(kind) == [figure |-> kind]

\* tail with an off-by-one window: one row too many.
tail_offbyone(rows, n) ==
    SubSeq(rows, (IF Len(rows) - n < 1 THEN 1 ELSE Len(rows) - n), Len(rows))

\* DataFrame.tail(n)
tail(rows, n) ==
    IF n = 0 THEN <<>>
    ELSE IF n > 0
         THEN SubSeq(rows, (IF Len(rows) - n + 1 < 1 THEN 1 ELSE Len(rows) - n + 1), Len(rows))
         ELSE SubSeq(rows, 1 - n, Len(rows))

-----------------------------------------------------------------------------
(* train *)

\* "dump": joblib.dump cannot open the artifact for writing (no permission);
\* nothing is written.  "partial": the file is opened, which empties it, and
\* the write breaks off (no space left); a truncated artifact stays behind.
TrainFaults == {"none", "dump", "partial"}

\* One run of train(ticker) on filesystem fs: dl is what the download gives,
\* fault says whether joblib.dump fails.  Gives the filesystem afterwards,
\* the exception raised (if any), the steps reached and the model fitted.
train_run(ticker, dl, fault, fs) ==
    IF dl.raises
    THEN [files |-> fs, exc |-> "DownloadError", model |-> NoModel, steps |-> <<"download">>]
    ELSE IF "Adj Close" \notin dl.columns
    THEN [files |-> fs, exc |-> "KeyError", model |-> NoModel,
          steps |-> <<"download", "reshape">>]
    ELSE LET df_forecast == [i \in 1..Len(dl.rows) |->
                                [ds |-> dl.rows[i]["Date"], y |-> dl.rows[i]["Adj Close"]]]
         IN  IF FitRaises(df_forecast)
             THEN [files |-> fs, exc |-> "ValueError", model |-> NoModel,
                   steps |-> <<"download", "reshape", "fit">>]
             ELSE IF fault = "dump" \/ ~ writable(model_file(ticker))
             THEN [files |-> fs, exc |-> "OSError", model |-> Fit(df_forecast),
                   steps |-> <<"download", "reshape", "fit", "dump">>]
             ELSE IF fault = "partial"
             THEN [files |-> write(fs, model_file(ticker), Truncated),
                   exc   |-> "OSError",
                   model |-> Fit(df_forecast),
                   steps |-> <<"download", "reshape", "fit", "dump">>]
             ELSE [files |-> write(fs, model_file(ticker), Fit(df_forecast)),
                   exc   |-> NoException,
                   model |-> Fit(df_forecast),
                   steps |-> <<"download", "reshape", "fit", "dump">>]

-----------------------------------------------------------------------------
(* predict *)

\* predict that renders a figure before it looks for the artifact.
predict_run_early_plot(ticker, days, today, fault, fs) ==
    [files |-> write(fs, joinpath(FIG_DIR, ticker \o <<"_plot.png">>), Figure("plot")),
     exc |-> NoException, ret |-> PyFalse, steps |-> <<"exists">>]

\* Where the environment makes predict fail: the existence test (the search
\* of a directory is denied), joblib.load, the first savefig or the second one.
PredictFaults == {"none", "exists", "load", "plot", "components"}

\* One run of predict(ticker, days) with TODAY = today on filesystem fs.
predict_run(ticker, days, today, fault, fs) ==
    LET found == exists(fs, model_file(ticker), fault = "exists") IN
    IF found.exc # NoException
    THEN [files |-> fs, exc |-> found.exc, ret |-> PyNone, steps |-> <<"exists">>]
    ELSE IF ~ found.val
    THEN [files |-> fs, exc |-> NoException, ret |-> PyFalse, steps |-> <<"exists">>]
    ELSE IF fault = "load" \/ read(fs, model_file(ticker)) = Truncated
    THEN [files |-> fs, exc |-> "LoadError", ret |-> PyNone, steps |-> <<"exists", "load">>]
    ELSE
    LET model    == read(fs, model_file(ticker))
        future   == AddDays(today, days)
        dates    == date_range(START_DATE, ParseMDY(StrftimeChars(future)))
        forecast == Forecast(model, dates)
        fs1      == write(fs, plot_file(ticker), Figure("plot"))
        fs2      == write(fs1, components_file(ticker), Figure("components"))
    IN  IF fault = "plot" \/ ~ writable(plot_file(ticker))
        THEN [files |-> fs, exc |-> "OSError", ret |-> PyNone,
              steps |-> <<"exists", "load", "date_range", "inference", "plot">>]
        ELSE IF fault = "components" \/ ~ writable(components_file(ticker))
        THEN [files |-> fs1, exc |-> "OSError", ret |-> PyNone,
              steps |-> <<"exists", "load", "date_range", "inference", "plot", "components">>]
        ELSE [files |-> fs2, exc |-> NoException,
              ret   |-> PyList(tail(forecast, days)),
              steps |-> <<"exists", "load", "date_range", "inference", "plot",
                          "components", "tail">>]

-----------------------------------------------------------------------------
(* convert *)

\* output[key] = value on an insertion-ordered dict.
DictSet(entries, key, value) ==
    IF \E i \in 1..Len(entries) : entries[i].key = key
    THEN [i \in 1..Len(entries) |->
            IF entries[i].key = key THEN [key |-> key, value |-> value] ELSE entries[i]]
    ELSE Append(entries, [key |-> key, value |-> value])

\* convert that reads the yhat field instead of the trend field.
RECURSIVE convert_loop_yhat(_, _)
convert_loop_yhat(items, entries) ==
    IF items = <<>> THEN entries
    ELSE convert_loop_yhat(Tail(items),
                           DictSet(entries, Strftime(Head(items).ds), Head(items).yhat))

RECURSIVE convert_loop(_, _)
convert_loop(items, entries) ==
    IF items = <<>> THEN entries
    ELSE LET data == Head(items)
             date == Strftime(data.ds)
         IN  convert_loop(Tail(items), DictSet(entries, date, data.trend))

\* One run of convert(prediction_list).  A list is iterated record by
\* record; a dict is iterated over its keys, and indexing a key with "ds"
\* raises; a value that cannot be iterated raises.  arg is the argument
\* object as the call leaves it.
convert_run(pl) ==
    IF pl.type = "list"
    THEN [exc |-> NoException, ret |-> PyDict(convert_loop(pl.items, <<>>)), arg |-> pl]
    ELSE IF pl.type = "dict" /\ pl.entries = <<>>
    THEN [exc |-> NoException, ret |-> PyDict(<<>>), arg |-> pl]
    ELSE [exc |-> "TypeError", ret |-> PyNone, arg |-> pl]

-----------------------------------------------------------------------------
(* The state machine. *)

\* The day the module is imported on.
FirstDay == Date(2020, 1, 5)

\* TODAY is read anew by every process.
TodayChoices == {FirstDay, Date(2020, 1, 31)}

Unbound == [type |-> "unbound"]

NoCall ==
    [op |-> "none", ticker |-> <<>>, days |-> 0, exc |-> NoException,
     steps |-> <<>>, existed |-> FALSE]

\* After import, before any call: both directories exist and are empty.
Init ==
    /\ TODAY = FirstDay
    /\ files = <<>>
    /\ call = NoCall
    /\ ret = PyNone
    /\ fitted = [t \in Tickers |-> NoModel]
    /\ pc = "idle"
    /\ args = Unbound
    /\ prediction_list = Unbound
    /\ output = Unbound
    /\ stdout = <<>>

\* train whose dump is lost: it reports success and writes nothing.
do_train_lost(ticker) ==
    \E dl \in Downloads, fault \in TrainFaults :
        \E r \in {train_run(ticker, dl, fault, files)} :
            /\ files' = files
            /\ call' = [op |-> "train", ticker |-> ticker, days |-> 0, exc |-> r.exc,
                        steps |-> r.steps, existed |-> on_disk(files, model_file(ticker))]
            /\ ret' = PyNone
            /\ fitted' = IF r.exc = NoException
                         THEN [fitted EXCEPT ![ticker] = r.model]
                         ELSE IF r.files # files
                         THEN [fitted EXCEPT ![ticker] = NoModel]
                         ELSE fitted

\* The effect of a call train(ticker) on the filesystem and the call record.
do_train(ticker) ==
    \E dl \in Downloads, fault \in TrainFaults :
        \E r \in {train_run(ticker, dl, fault, files)} :
            /\ files' = r.files
            /\ call' = [op |-> "train", ticker |-> ticker, days |-> 0, exc |-> r.exc,
                        steps |-> r.steps, existed |-> on_disk(files, model_file(ticker))]
            /\ ret' = PyNone
            /\ fitted' = IF r.exc = NoException
                         THEN [fitted EXCEPT ![ticker] = r.model]
                         ELSE IF r.files # files
                         THEN [fitted EXCEPT ![ticker] = NoModel]
                         ELSE fitted

\* The effect of a call predict(ticker, days).
do_predict(ticker, days) ==
    \E fault \in (IF on_disk(files, model_file(ticker))
                  THEN PredictFaults
                  ELSE {"none", "exists"}) :
        \E r \in {predict_run(ticker, days, TODAY, fault, files)} :
            /\ files' = r.files
            /\ call' = [op |-> "predict", ticker |-> ticker, days |-> days, exc |-> r.exc,
                        steps |-> r.steps, existed |-> on_disk(files, model_file(ticker))]
            /\ ret' = r.ret
            /\ UNCHANGED fitted

\* Library use: any caller, any order.
train(ticker) ==
    /\ pc = "idle"
    /\ do_train(ticker)
    /\ UNCHANGED <<TODAY, mainVars>>

predict(ticker, days) ==
    /\ pc = "idle"
    /\ do_predict(ticker, days)
    /\ UNCHANGED <<TODAY, mainVars>>

Next ==
    \/ \E ticker \in Tickers : train(ticker)
    \/ \E ticker \in Tickers, days \in Horizons : predict(ticker, days)

Spec == Init /\ [][Next]_vars

-----------------------------------------------------------------------------
(* convert on its own, over bounded record lists. *)

ConvertDates == {Date(2024, 1, 1), Date(2020, 2, 29)}

ConvertRecords ==
    {[ds |-> d, trend |-> t, yhat |-> t + 1] : d \in ConvertDates, t \in 1..MaxPrice}

RecordLists == UNION {[1..n -> ConvertRecords] : n \in 0..MaxLen}

InitConvert ==
    /\ TODAY = FirstDay
    /\ files = <<>>
    /\ call = NoCall
    /\ ret = PyNone
    /\ fitted = [t \in Tickers |-> NoModel]
    /\ pc = "idle"
    /\ args = Unbound
    /\ prediction_list \in {PyList(items) : items \in RecordLists}
    /\ output = Unbound
    /\ stdout = <<>>

convert ==
    /\ call.op = "none"
    /\ LET r == convert_run(prediction_list)
       IN  /\ call' = [op |-> "convert", ticker |-> <<>>, days |-> 0, exc |-> r.exc,
                       steps |-> <<>>, existed |-> FALSE]
           /\ ret' = r.ret
           /\ output' = r.ret
           /\ prediction_list' = r.arg
    /\ UNCHANGED <<TODAY, files, fitted, pc, args, stdout>>

NextConvert == convert

SpecConvert == InitConvert /\ [][NextConvert]_vars

-----------------------------------------------------------------------------
(* The __main__ block: one process per invocation, one stage per step. *)

Invoke(ticker, days) ==
    /\ pc \in {"idle", "done", "crashed"}
    /\ TODAY' \in TodayChoices
    /\ args' = [ticker |-> ticker, days |-> days]
    /\ prediction_list' = Unbound
    /\ output' = Unbound
    /\ stdout' = <<>>
    /\ call' = NoCall
    /\ ret' = PyNone
    /\ pc' = "train"
    /\ UNCHANGED <<files, fitted>>

\* __main__ that trains only when no artifact exists yet.
MainTrain_cached ==
    /\ pc = "train"
    /\ IF on_disk(files, joinpath(MODEL_DIR, args.ticker \o <<".joblib">>))
       THEN UNCHANGED <<files, call, ret, fitted>>
       ELSE do_train(args.ticker)
    /\ pc' = IF call'.exc = NoException THEN "predict" ELSE "crashed"
    /\ UNCHANGED <<TODAY, args, prediction_list, output, stdout>>

\* __main__ that swallows a failure of train and carries on.
MainTrain_swallow ==
    /\ pc = "train"
    /\ do_train(args.ticker)
    /\ pc' = "predict"
    /\ UNCHANGED <<TODAY, args, prediction_list, output, stdout>>

MainTrain ==
    /\ pc = "train"
    /\ do_train(args.ticker)
    /\ pc' = IF call'.exc = NoException THEN "predict" ELSE "crashed"
    /\ UNCHANGED <<TODAY, args, prediction_list, output, stdout>>

MainPredict ==
    /\ pc = "predict"
    /\ do_predict(args.ticker, args.days)
    /\ prediction_list' = IF call'.exc = NoException THEN ret' ELSE prediction_list
    /\ pc' = IF call'.exc = NoException THEN "convert" ELSE "crashed"
    /\ UNCHANGED <<TODAY, args, output, stdout>>

MainConvert ==
    /\ pc = "convert"
    /\ LET r == convert_run(prediction_list)
       IN  /\ call' = [op |-> "convert", ticker |-> <<>>, days |-> 0, exc |-> r.exc,
                       steps |-> <<>>, existed |-> FALSE]
           /\ ret' = r.ret
           /\ output' = IF r.exc = NoException THEN r.ret ELSE output
           /\ prediction_list' = r.arg
           /\ pc' = IF r.exc = NoException THEN "print" ELSE "crashed"
    /\ UNCHANGED <<TODAY, files, fitted, args, stdout>>

MainPrint ==
    /\ pc = "print"
    /\ stdout' = Append(stdout, output)
    /\ pc' = "done"
    /\ UNCHANGED <<TODAY, files, call, ret, fitted, args, prediction_list, output>>

NextMain ==
    \/ \E ticker \in Tickers, days \in DaysChoices : Invoke(ticker, days)
    \/ MainTrain
    \/ MainPredict
    \/ MainConvert
    \/ MainPrint

SpecMain == Init /\ [][NextMain]_vars

-----------------------------------------------------------------------------
(* Properties. *)

\* The artifact of ticker t on filesystem fs, or NoModel when there is none.
Artifact(fs, t) == IF on_disk(fs, model_file(t)) THEN read(fs, model_file(t)) ELSE NoModel

\* C1: when there is no artifact for T, predict(T, days) returns the absence
\* sentinel (the falsy non-list value), raises nothing and stops after the
\* existence test: load, inference and figure writing are not reached.  It
\* returns a list of records only when T's artifact exists.
C1_MissingArtifact ==
    call.op = "predict" =>
        /\ ~ call.existed =>
              /\ call.exc = NoException
              /\ ret = PyFalse
              /\ call.steps = <<"exists">>
        /\ ret.type = "list" =>
              /\ call.existed
              /\ on_disk(files, model_file(call.ticker))

\* C2: a predict(T, days) that returns records, with days >= 0, returns
\* exactly `days` of them: the forecast rows of T's artifact for the dates
\* TODAY + 1 .. TODAY + days in ascending order, i.e. the last `days` rows of
\* the forecast over the daily grid from the start date through TODAY + days.
C2_TailOfForecast ==
    (call.op = "predict" /\ call.exc = NoException /\ call.existed /\ call.days >= 0) =>
        /\ ret.type = "list"
        /\ Len(ret.items) = call.days
        /\ \A i \in 1..Len(ret.items) :
              /\ ret.items[i].ds = AddDays(TODAY, i)
              /\ ret.items[i] = Forecast(Artifact(files, call.ticker),
                                         <<AddDays(TODAY, i)>>)[1]
        /\ call.days > 0 =>
              /\ ret.items[call.days].ds = AddDays(TODAY, call.days)
              /\ ToOrdinal(ret.items[1].ds) > ToOrdinal(START_DATE)

C2_Witness ==
    /\ call.op = "predict"
    /\ call.exc = NoException
    /\ call.existed
    /\ call.days = MaxDays
    /\ Len(ret.items) = MaxDays
    /\ ret.items[MaxDays].ds.month # TODAY.month

\* The text of the two dates convert is tried on, written out by hand.
KnownText(dt) ==
    IF dt = Date(2024, 1, 1) THEN "01/01/2024"
    ELSE IF dt = Date(2020, 2, 29) THEN "02/29/2020"
    ELSE "?"

C3_Post ==
    LET items == prediction_list.items
        e     == ret.entries
        first(k) == CHOOSE i \in 1..Len(items) :
                        /\ KnownText(items[i].ds) = k
                        /\ \A j \in 1..(i - 1) : KnownText(items[j].ds) # k
    IN  /\ call.exc = NoException
        /\ ret.type = "dict"
        /\ output = ret
        /\ {e[i].key : i \in 1..Len(e)} = {KnownText(items[i].ds) : i \in 1..Len(items)}
        /\ \A i, j \in 1..Len(e) : i # j => e[i].key # e[j].key
        /\ \A i \in 1..Len(e) :
              \E j \in 1..Len(items) :
                  /\ KnownText(items[j].ds) = e[i].key
                  /\ e[i].value = items[j].trend
                  /\ \A k \in (j + 1)..Len(items) : KnownText(items[k].ds) # e[i].key
        /\ \A i, j \in 1..Len(e) : i < j => first(e[i].key) < first(e[j].key)
        /\ (items = <<>>) => (e = <<>>)

\* C3: convert returns a mapping whose keys are exactly the MM/DD/YYYY texts
\* of the records' dates, each key once, in the order in which the dates first
\* appear in the input; the value at a key is the trend of the record with
\* that date (of the last such record when a date repeats); the empty list
\* gives the empty mapping; the input list is left as it was.
C3_ConvertMapping ==
    [][call'.op = "convert" => (prediction_list' = prediction_list /\ C3_Post')]_vars

C3_Witness ==
    /\ call.op = "convert"
    /\ Len(prediction_list.items) = 3
    /\ Len(ret.entries) = 2
    /\ prediction_list.items[1].ds = prediction_list.items[3].ds
    /\ prediction_list.items[1].trend # prediction_list.items[3].trend
    /\ ret.entries[1].key = "01/01/2024"

\* C4: for any two distinct tickers A and B, a train(B) step changes no file
\* other than the artifact at B's path, and leaves A's artifact as it was: its
\* existence and its content.
C4_TrainFrame ==
    [][call'.op = "train" =>
          /\ \A a \in Tickers \ {call'.ticker} :
                /\ on_disk(files', model_file(a)) = on_disk(files, model_file(a))
                /\ Artifact(files', a) = Artifact(files, a)
          /\ \A p \in (DOMAIN files) \cup (DOMAIN files') :
                p # Location(model_file(call'.ticker)) =>
                    /\ p \in DOMAIN files
                    /\ p \in DOMAIN files'
                    /\ files'[p] = files[p]
      ]_vars

\* C5: once train(T) has succeeded, the artifact on disk for T is the model
\* fitted by the most recent successful train(T), and the records a predict(T,
\* days) returns are that model's forecast.
C5_NewestFit ==
    /\ \A t \in Tickers :
          fitted[t] # NoModel =>
              /\ on_disk(files, model_file(t))
              /\ read(files, model_file(t)) = fitted[t]
    /\ (call.op = "predict" /\ call.exc = NoException /\ call.existed
            /\ fitted[call.ticker] # NoModel) =>
          \A i \in 1..Len(ret.items) :
              ret.items[i].trend = Trend(fitted[call.ticker], ret.items[i].ds)

\* C6: when the model file does not exist, predict returns None.
C6_ReturnsNone ==
    (call.op = "predict" /\ ~ call.existed) => ret = PyNone

\* C7: every step of an invocation is the next stage of train, predict,
\* convert, print: the step taken at "train" is a call of train(args.ticker)
\* whether or not an artifact exists, predict runs only from "predict" (after
\* train returned), convert only from "convert" (after predict returned), and
\* the only print is the step from "print" to "done", which prints the mapping
\* convert returned, once.
C7_StageOrder ==
    [][ /\ pc = "train" =>
              /\ call'.op = "train"
              /\ call'.ticker = args.ticker
              /\ pc' \in {"predict", "crashed"}
              /\ pc' = "predict" <=> call'.exc = NoException
        /\ pc = "predict" =>
              /\ call.op = "train"
              /\ call.exc = NoException
              /\ call'.op = "predict"
              /\ call'.ticker = args.ticker
              /\ call'.days = args.days
              /\ pc' \in {"convert", "crashed"}
              /\ pc' = "convert" <=> call'.exc = NoException
        /\ pc = "convert" =>
              /\ call.op = "predict"
              /\ call.exc = NoException
              /\ prediction_list = ret
              /\ call'.op = "convert"
              /\ pc' \in {"print", "crashed"}
        /\ pc = "print" =>
              /\ call.op = "convert"
              /\ call.exc = NoException
              /\ output = ret
              /\ stdout = <<>>
              /\ stdout' = <<output>>
              /\ pc' = "done"
        /\ pc \in {"idle", "done", "crashed"} => (pc' = "train" /\ stdout' = <<>>)
        /\ pc # "print" => stdout' \in {stdout, <<>>}
        /\ call' # call => (pc = (IF call'.op = "none" THEN pc ELSE call'.op)
                               /\ (call'.op = "none" => pc' = "train"))
      ]_vars

C7_Witness ==
    /\ pc = "predict"
    /\ call.op = "train"
    /\ call.existed
    /\ call.exc = NoException
    /\ on_disk(files, plot_file(args.ticker))

\* The places on disk where the tickers' model artifacts are kept.
ArtifactLocations == {Location(model_file(t)) : t \in Tickers}

\* The places on disk of the two figures of each ticker.
FigureLocations ==
    [t \in Tickers |-> {Location(plot_file(t)), Location(components_file(t))}]

\* C8: a predict step leaves every model artifact as it was; the files it
\* changes are at most the two figures of its ticker, both of them when it
\* returns records, and none at all when there is no artifact.
C8_PredictFrame ==
    [][call'.op = "predict" =>
          /\ \A p \in ArtifactLocations :
                /\ (p \in DOMAIN files') = (p \in DOMAIN files)
                /\ p \in DOMAIN files => files'[p] = files[p]
          /\ DOMAIN files \subseteq DOMAIN files'
          /\ \A p \in DOMAIN files' :
                (p \notin DOMAIN files \/ files'[p] # files[p]) =>
                    p \in FigureLocations[call'.ticker]
          /\ (call'.existed /\ call'.exc = NoException) =>
                DOMAIN files' = (DOMAIN files) \cup FigureLocations[call'.ticker]
          /\ ~ call'.existed => files' = files
      ]_vars

C8_Witness ==
    /\ call.op = "predict"
    /\ call.exc = NoException
    /\ call.existed
    /\ on_disk(files, plot_file(call.ticker))
    /\ on_disk(files, components_file(call.ticker))
    /\ \E t \in Tickers : ~ on_disk(files, plot_file(t)) /\ on_disk(files, model_file(t))

\* C9: in an invocation, control reaches predict only after train returned
\* without error and with the ticker's artifact on disk; predict then returns
\* a list, so convert is handed a list and never raises on the sentinel.
C9_ConvertGetsList ==
    /\ pc = "predict" =>
          /\ call.op = "train"
          /\ call.exc = NoException
          /\ call.ticker = args.ticker
          /\ on_disk(files, model_file(args.ticker))
    /\ pc = "convert" =>
          /\ call.existed
          /\ prediction_list.type = "list"
          /\ args.days >= 0 => Len(prediction_list.items) = args.days
    /\ call.op = "convert" => (call.exc = NoException /\ prediction_list.type = "list")

C9_Witness ==
    /\ pc = "print"
    /\ call.op = "convert"
    /\ prediction_list.type = "list"
    /\ Len(prediction_list.items) = MaxDays
    /\ Len(output.entries) = MaxDays

\* Train failed in the download, the reshaping or the fit.
FailedBeforeDump(c) ==
    /\ c.op = "train"
    /\ c.exc # NoException
    /\ c.steps \in {<<"download">>, <<"download", "reshape">>,
                    <<"download", "reshape", "fit">>}

\* C10: a train that fails in the download, the reshaping or the fit makes one
\* attempt only, leaves the filesystem as it was, and ends the invocation:
\* nothing is predicted, converted or printed, and the next step can only be a
\* new invocation.
C10_TrainFailure ==
    [][ /\ FailedBeforeDump(call') =>
              /\ files' = files
              /\ fitted' = fitted
              /\ pc' = "crashed"
              /\ prediction_list' = Unbound
              /\ output' = Unbound
              /\ stdout' = <<>>
        /\ (pc = "crashed" /\ FailedBeforeDump(call)) =>
              /\ pc' = "train"
              /\ call' = NoCall
              /\ files' = files
      ]_vars

C10_Witness ==
    /\ pc = "crashed"
    /\ FailedBeforeDump(call)
    /\ call.exc = "ValueError"
    /\ call.existed
    /\ read(files, model_file(call.ticker)) = fitted[call.ticker]

====
